---------------------------- MODULE Spec2Model ----------------------------
(***************************************************************************)
(* Model of rviz::MessageFilterDisplay<MessageType>                        *)
(* (src/rviz/message_filter_display.h).                                    *)
(*                                                                         *)
(* The display owns a message_filters::Subscriber (sub_), a pointer to a   *)
(* tf2_ros::MessageFilter (tf_filter_) and a 32 bit counter                *)
(* (messages_received_).  The two properties of _RosTopicDisplay ("Topic", *)
(* "Unreliable") and the inherited Display state (enabled flag, fixed      *)
(* frame, "Topic" status line) are the remaining state.  Every handler of  *)
(* the class is an operator from a display state to a display state, so    *)
(* that a handler calling another one (updateTopic -> unsubscribe, reset,  *)
(* subscribe) is one step.                                                 *)
(***************************************************************************)
EXTENDS Integers, Sequences, FiniteSets, TLC

(***************************************************************************)
(* Bounds and program constants                                            *)
(***************************************************************************)
\* Queue size handed to the tf2_ros::MessageFilter constructor.
QueueSize == 10

\* messages_received_ is a uint32_t and counts modulo 2^32.  The model
\* counts modulo CounterMod, which stands for 2^32, so that the counter's
\* wrap-around is among the reachable steps.
CounterMod == 4

\* Channel names the "Topic" property takes; "" is its initial value.
Topics == {"", "scan", "cloud"}

\* Fixed (reference) frames the host may select.
Frames == {"map", "odom"}

\* The null message pointer and a message of the display's MessageType.
NullMsg == "NULL"
Msgs == {"msg"}

\* The "Topic" status line: nothing set, or the last setStatus() call.
NoStatus == [level |-> "none", text |-> "", n |-> 0]
StatusOK == [level |-> "Ok", text |-> "OK", n |-> 0]
StatusError == [level |-> "Error", text |-> "Error subscribing", n |-> 0]
StatusReceived(n) == [level |-> "Ok", text |-> "messages received", n |-> n]

\* One call made to a collaborator (or to the abstract handler).
Call(fn, arg) == [fn |-> fn, arg |-> arg]

VARIABLES
    enabled,               \* Display::isEnabled()
    topic_property_,       \* value of the "Topic" property
    unreliable_property_,  \* value of the "Unreliable" property
    fixed_frame_,          \* Display::fixed_frame_
    sub_,                  \* the subscriptions sub_ holds open
    tf_filter_,            \* the pointer and the filter it points to
    messages_received_,    \* uint32_t counter
    status,                \* the "Topic" status line
    wiring,                \* who receives sub_'s and the filter's messages
    tf_ok,                 \* target frames the message frame resolves to now
    destroyed,             \* the destructor has run
    uncaught,              \* an exception left a handler
    null_deref,            \* tf_filter_ was dereferenced while not live
    last,                  \* the step taken last
    calls,                 \* the collaborator calls that step made
    handled                \* processMessage() calls since the last reset

vars == <<enabled, topic_property_, unreliable_property_, fixed_frame_, sub_,
          tf_filter_, wiring, messages_received_, status, tf_ok, destroyed, uncaught,
          null_deref, last, calls, handled>>

(***************************************************************************)
(* The display state the handlers work on                                  *)
(***************************************************************************)
St == [enabled |-> enabled,
       topic_property_ |-> topic_property_,
       unreliable_property_ |-> unreliable_property_,
       fixed_frame_ |-> fixed_frame_,
       sub_ |-> sub_,
       tf_filter_ |-> tf_filter_,
       wiring |-> wiring,
       messages_received_ |-> messages_received_,
       status |-> status,
       uncaught |-> uncaught,
       null_deref |-> null_deref,
       calls |-> <<>>]

\* The steps that run reset().
ResetSteps == {"reset", "onDisable", "setTopic", "setUnreliable",
               "fixedFrameChanged"}

\* The processMessage() calls among cs.
IsHandlerCall(c) == c.fn = "processMessage"
HandlerCalls(cs) == Len(SelectSeq(cs, IsHandlerCall))

\* The number of processMessage() calls since the last step that ran
\* reset(), after a step op that made the calls cs.  It is kept modulo a
\* multiple of CounterMod, which leaves its value modulo CounterMod exact.
Handled(op, cs) ==
    IF op \in ResetSteps THEN 0
    ELSE (handled + HandlerCalls(cs)) % (2 * CounterMod)

Becomes(s, op) ==
    /\ enabled' = s.enabled
    /\ topic_property_' = s.topic_property_
    /\ unreliable_property_' = s.unreliable_property_
    /\ fixed_frame_' = s.fixed_frame_
    /\ sub_' = s.sub_
    /\ tf_filter_' = s.tf_filter_
    /\ wiring' = s.wiring
    /\ messages_received_' = s.messages_received_
    /\ status' = s.status
    /\ uncaught' = s.uncaught
    /\ null_deref' = s.null_deref
    /\ calls' = s.calls
    /\ last' = op
    /\ handled' = Handled(op, s.calls)

\* Nothing is connected before onInitialize().
NoWiring == [sub_ |-> "none", tf_filter_ |-> "none"]

\* tf_filter_( NULL ): the pointer after construction.
NullFilter == [ptr |-> "NULL", target_frame |-> "", messages |-> <<>>]

\* new tf2_ros::MessageFilter( buffer, fixed_frame_, 10, update_nh_ )
NewFilter(frame) == [ptr |-> "live", target_frame |-> frame, messages |-> <<>>]

FilterLive(s) == s.tf_filter_.ptr = "live"

\* A use of tf_filter_-> : on a pointer that is not live it is recorded.
Deref(s) == IF FilterLive(s) THEN s ELSE [s EXCEPT !.null_deref = TRUE]

Log(s, fn, arg) == [s EXCEPT !.calls = Append(@, Call(fn, arg))]


(***************************************************************************)
(* Collaborators: message_filters::Subscriber and tf2_ros::MessageFilter   *)
(***************************************************************************)
\* Variant: the "Unreliable" property is never consulted.
TransportHint_AlwaysReliable(s) == "reliable"

\* ros::TransportHints().reliable(), replaced by .unreliable() when the
\* "Unreliable" property is set.
TransportHint(s) == IF s.unreliable_property_ THEN "unreliable" ELSE "reliable"

\* sub_.unsubscribe(): the subscription sub_ holds, if any, is shut down.
SubUnsubscribe(s) == [Log(s, "sub_.unsubscribe", <<>>) EXCEPT !.sub_ = <<>>]

\* sub_.subscribe( update_nh_, topic, 10, transport_hint ): the handle first
\* drops what it holds; an empty topic opens nothing; otherwise the node
\* handle opens the subscription or throws a ros::Exception.
SubSubscribe(s, throws) ==
    LET t == s.topic_property_
        h == TransportHint(s)
        c == [Log(s, "sub_.subscribe", <<t, h>>) EXCEPT !.sub_ = <<>>]
    IN  IF t = "" THEN c
        ELSE IF throws THEN Log(c, "ros::Exception", <<>>)
        ELSE [c EXCEPT !.sub_ = <<[topic |-> t, hint |-> h]>>]

\* Whether the sub_.subscribe() call that s records ended in an exception.
Threw(s) == s.calls # <<>> /\ s.calls[Len(s.calls)].fn = "ros::Exception"

\* tf_filter_->clear()
FilterClear(s) ==
    IF FilterLive(s)
    THEN [Log(s, "tf_filter_.clear", <<>>) EXCEPT !.tf_filter_.messages = <<>>]
    ELSE Deref(s)

\* tf_filter_->setTargetFrame( fixed_frame_.toStdString() )
FilterSetTargetFrame(s) ==
    IF FilterLive(s)
    THEN [Log(s, "tf_filter_.setTargetFrame", <<s.fixed_frame_>>)
            EXCEPT !.tf_filter_.target_frame = s.fixed_frame_]
    ELSE Deref(s)

\* Whether the filter of s can resolve a message to its target frame when
\* the transform buffer resolves the message frame to the frames in ok.
CanTransform(s, ok) == s.tf_filter_.target_frame \in ok

\* Display::reset() of the base class clears the status lines.
DisplayReset(s) == [s EXCEPT !.status = NoStatus]

\* Display::setStatus( level, "Topic", text )
SetStatus(s, st) == [Log(s, "setStatus", <<st.level, st.text, st.n>>)
                       EXCEPT !.status = st]

(***************************************************************************)
(* The handlers of MessageFilterDisplay                                    *)
(***************************************************************************)
\* The abstract per-item handler: its invocation is what is recorded.
processMessage(s, msg) == Log(s, "processMessage", <<msg>>)

\* Variant: the null check is missing.
incomingMessage_NoNullCheck(s, msg) ==
    LET n == (s.messages_received_ + 1) % CounterMod
        c == [s EXCEPT !.messages_received_ = n]
    IN  processMessage(SetStatus(c, StatusReceived(n)), msg)

\* Variant: the counter is incremented twice per message.
incomingMessage_CountsTwice(s, msg) ==
    IF msg = NullMsg THEN s
    ELSE LET n == (s.messages_received_ + 2) % CounterMod
             c == [s EXCEPT !.messages_received_ = n]
         IN  processMessage(SetStatus(c, StatusReceived(n)), msg)

\* Variant: the handler runs before the count and the status are updated.
incomingMessage_HandlerFirst(s, msg) ==
    IF msg = NullMsg THEN s
    ELSE LET n == (s.messages_received_ + 1) % CounterMod
             c == processMessage(s, msg)
         IN  SetStatus([c EXCEPT !.messages_received_ = n], StatusReceived(n))

incomingMessage(s, msg) ==
    IF msg = NullMsg THEN s
    ELSE LET n == (s.messages_received_ + 1) % CounterMod
             c == [s EXCEPT !.messages_received_ = n]
         IN  processMessage(SetStatus(c, StatusReceived(n)), msg)

\* Variant: incomingMessage is registered on sub_ itself instead of on the
\* filter, so that messages bypass the filter.
onInitialize_BypassFilter(s) ==
    [Log(s, "new MessageFilter", <<s.fixed_frame_>>)
        EXCEPT !.tf_filter_ = NewFilter(s.fixed_frame_),
               !.wiring = [sub_ |-> "incomingMessage", tf_filter_ |-> "none"]]

\* Variant: onInitialize() connects and registers but creates no filter.
onInitialize_NoFilter(s) ==
    [s EXCEPT !.wiring = [sub_ |-> "tf_filter_",
                          tf_filter_ |-> "incomingMessage"]]

\* The filter is created on the fixed frame with a queue of 10, sub_ is
\* connected as its input and incomingMessage registered as its callback.
onInitialize(s) ==
    [Log(s, "new MessageFilter", <<s.fixed_frame_>>)
        EXCEPT !.tf_filter_ = NewFilter(s.fixed_frame_),
               !.wiring = [sub_ |-> "tf_filter_",
                           tf_filter_ |-> "incomingMessage"]]

\* Variant: reset() leaves the counter as it is.
reset_KeepsCount(s) == FilterClear(DisplayReset(s))

reset(s) ==
    [FilterClear(DisplayReset(s)) EXCEPT !.messages_received_ = 0]

unsubscribe(s) == SubUnsubscribe(s)

\* Variant: no try/catch around the subscription.
subscribe_NoCatch(s, throws) ==
    IF ~s.enabled THEN s
    ELSE LET c == SubSubscribe(s, throws)
         IN  IF Threw(c) THEN [c EXCEPT !.uncaught = TRUE]
             ELSE SetStatus(c, StatusOK)

\* Variant: subscribe() does not look at isEnabled().
subscribe_NoEnabledCheck(s, throws) ==
    LET c == SubSubscribe(s, throws)
    IN  IF Threw(c) THEN SetStatus(c, StatusError)
        ELSE SetStatus(c, StatusOK)

\* Variant: a new subscription is opened beside the one sub_ already holds.
subscribe_KeepsOld(s, throws) ==
    IF ~s.enabled THEN s
    ELSE LET c == SubSubscribe(s, throws)
         IN  IF Threw(c) THEN SetStatus(c, StatusError)
             ELSE SetStatus([c EXCEPT !.sub_ = s.sub_ \o c.sub_], StatusOK)

subscribe(s, throws) ==
    IF ~s.enabled THEN s
    ELSE LET c == SubSubscribe(s, throws)
         IN  IF Threw(c) THEN SetStatus(c, StatusError)
             ELSE SetStatus(c, StatusOK)

\* Variant: updateTopic() forgets reset().
updateTopic_NoReset(s, throws) == subscribe(unsubscribe(s), throws)

updateTopic(s, throws) == subscribe(reset(unsubscribe(s)), throws)

\* Variant: the slot runs on the old value of the property.
setTopic_StaleTopic(s, topic, throws) ==
    [updateTopic(s, throws) EXCEPT !.topic_property_ = topic]

\* topic_property_->setString( topic ): the property changes and its
\* changed-signal runs the updateTopic() slot.
setTopic(s, topic, throws) ==
    updateTopic([s EXCEPT !.topic_property_ = topic], throws)

\* The "Unreliable" property is wired to the same slot.
setUnreliable(s, b, throws) ==
    updateTopic([s EXCEPT !.unreliable_property_ = b], throws)

onEnable(s, throws) == subscribe(s, throws)

\* Variant: onDisable() forgets unsubscribe().
onDisable_KeepsSubscription(s) == reset(s)

\* Variant: onDisable() forgets reset().
onDisable_NoReset(s) == unsubscribe(s)

onDisable(s) == reset(unsubscribe(s))

\* Variant: the frame change also closes the subscription.
fixedFrameChanged_Unsubscribes(s) == reset(unsubscribe(FilterSetTargetFrame(s)))

fixedFrameChanged(s) == reset(FilterSetTargetFrame(s))

\* delete tf_filter_: the filter goes with what it queued; on a NULL
\* pointer the statement does nothing.
DeleteFilter(s) ==
    LET c == Log(s, "delete tf_filter_", <<>>)
    IN  IF FilterLive(c) THEN [c EXCEPT !.tf_filter_.ptr = "deleted",
                                        !.tf_filter_.messages = <<>>]
        ELSE c

\* Variant: the destructor deletes the filter without unsubscribing.
destructor_NoUnsubscribe(s) == DeleteFilter(s)

\* Variant: the destructor deletes the filter first.
destructor_DeleteFirst(s) == unsubscribe(DeleteFilter(s))

\* ~MessageFilterDisplay(): unsubscribe(), then delete tf_filter_.
destructor(s) == DeleteFilter(unsubscribe(s))

\* The callback registered on the filter receives msg.
filterSignal(s, msg) ==
    IF s.wiring.tf_filter_ = "incomingMessage" THEN incomingMessage(s, msg)
    ELSE s

\* A message enters the filter, which hands it on at once when its frame
\* resolves, and otherwise queues it, dropping the oldest queued message
\* when the queue is full.
filterAdd(s, msg, ok) ==
    IF ~FilterLive(s) THEN Deref(s)
    ELSE IF CanTransform(s, ok) THEN filterSignal(s, msg)
    ELSE LET q == s.tf_filter_.messages
             kept == IF Len(q) + 1 > QueueSize THEN Tail(q) ELSE q
         IN  [s EXCEPT !.tf_filter_.messages = Append(kept, msg)]

\* The filter hands its i-th queued message to the registered callback.
filterRelease(s, i) ==
    LET q == s.tf_filter_.messages
        rest == [j \in 1..(Len(q) - 1) |-> IF j < i THEN q[j] ELSE q[j + 1]]
    IN  filterSignal([s EXCEPT !.tf_filter_.messages = rest], q[i])

\* sub_ received msg from its subscription and passes it to its listener.
subSignal(s, msg, ok) ==
    IF s.wiring.sub_ = "tf_filter_" THEN filterAdd(s, msg, ok)
    ELSE IF s.wiring.sub_ = "incomingMessage" THEN incomingMessage(s, msg)
    ELSE s


(***************************************************************************)
(* The steps of the program                                                *)
(***************************************************************************)
\* After construction: tf_filter_( NULL ), messages_received_( 0 ), the
\* properties at their defaults ("" and false), the display disabled.
Init ==
    /\ enabled = FALSE
    /\ topic_property_ = ""
    /\ unreliable_property_ = FALSE
    /\ fixed_frame_ = ""
    /\ sub_ = <<>>
    /\ tf_filter_ = NullFilter
    /\ wiring = NoWiring
    /\ messages_received_ = 0
    /\ status = NoStatus
    /\ tf_ok = {}
    /\ destroyed = FALSE
    /\ uncaught = FALSE
    /\ null_deref = FALSE
    /\ last = "constructor"
    /\ calls = <<>>
    /\ handled = 0

\* Display::initialize() has run: it gave the display its fixed frame.
Initialized == fixed_frame_ # ""

\* The host drives the hooks of a display it has initialized and not yet
\* destroyed.
Hosted == ~destroyed /\ Initialized

\* Display::initialize(): the fixed frame is taken from the context, then
\* onInitialize() runs.
Initialize(f) ==
    /\ ~destroyed /\ ~Initialized
    /\ Becomes(onInitialize([St EXCEPT !.fixed_frame_ = f]), "onInitialize")
    /\ UNCHANGED <<tf_ok, destroyed>>

\* The display is switched on: isEnabled() holds when onEnable() runs.
Enable(throws) ==
    /\ Hosted
    /\ Becomes(onEnable([St EXCEPT !.enabled = TRUE], throws), "onEnable")
    /\ UNCHANGED <<tf_ok, destroyed>>

\* The display is switched off: isEnabled() no longer holds in onDisable().
Disable ==
    /\ Hosted
    /\ Becomes(onDisable([St EXCEPT !.enabled = FALSE]), "onDisable")
    /\ UNCHANGED <<tf_ok, destroyed>>

Reset ==
    /\ Hosted
    /\ Becomes(reset(St), "reset")
    /\ UNCHANGED <<tf_ok, destroyed>>

SetTopic(t, throws) ==
    /\ Hosted
    /\ t # topic_property_
    /\ Becomes(setTopic(St, t, throws), "setTopic")
    /\ UNCHANGED <<tf_ok, destroyed>>

SetUnreliable(b, throws) ==
    /\ Hosted
    /\ b # unreliable_property_
    /\ Becomes(setUnreliable(St, b, throws), "setUnreliable")
    /\ UNCHANGED <<tf_ok, destroyed>>

\* Display::setFixedFrame(): fixed_frame_ changes, then fixedFrameChanged().
SetFixedFrame(f) ==
    /\ Hosted
    /\ f # fixed_frame_
    /\ Becomes(fixedFrameChanged([St EXCEPT !.fixed_frame_ = f]),
               "fixedFrameChanged")
    /\ UNCHANGED <<tf_ok, destroyed>>

\* A message of a subscription that is open reaches sub_'s listener.
Arrive(msg) ==
    /\ sub_ # <<>>
    /\ Becomes(subSignal(St, msg, tf_ok), "arrive")
    /\ UNCHANGED <<tf_ok, destroyed>>

\* The transform of a queued message has become available: the filter
\* takes it off its queue and delivers it.
Release(i) ==
    /\ ~destroyed
    /\ FilterLive(St)
    /\ i \in 1..Len(tf_filter_.messages)
    /\ CanTransform(St, tf_ok)
    /\ Becomes(filterRelease(St, i), "release")
    /\ UNCHANGED <<tf_ok, destroyed>>

\* The callback is invoked with a null message pointer.
IncomingNull ==
    /\ Hosted
    /\ Becomes(incomingMessage(St, NullMsg), "incomingMessage")
    /\ UNCHANGED <<tf_ok, destroyed>>

\* The transform buffer gains or loses the transforms of the message frame.
TfChange(ok) ==
    /\ ~destroyed
    /\ ok # tf_ok
    /\ tf_ok' = ok
    /\ Becomes(St, "transform")
    /\ UNCHANGED destroyed

\* The display is deleted, initialized or not.
Destroy ==
    /\ ~destroyed
    /\ Becomes(destructor(St), "destructor")
    /\ destroyed' = TRUE
    /\ UNCHANGED tf_ok

Next ==
    \/ \E f \in Frames : Initialize(f)
    \/ \E throws \in BOOLEAN : Enable(throws)
    \/ Disable
    \/ Reset
    \/ \E t \in Topics, throws \in BOOLEAN : SetTopic(t, throws)
    \/ \E b \in BOOLEAN, throws \in BOOLEAN : SetUnreliable(b, throws)
    \/ \E f \in Frames : SetFixedFrame(f)
    \/ \E msg \in Msgs : Arrive(msg)
    \/ \E i \in 1..QueueSize : Release(i)
    \/ IncomingNull
    \/ \E ok \in SUBSET Frames : TfChange(ok)
    \/ Destroy

Spec == Init /\ [][Next]_vars


(***************************************************************************)
(* Observations on a state                                                 *)
(***************************************************************************)
\* The calls of the last step that went to sub_.
IsSubCall(c) == c.fn \in {"sub_.unsubscribe", "sub_.subscribe"}
SubCalls == SelectSeq(calls, IsSubCall)

\* The last step invoked processMessage().
Delivered == \E i \in DOMAIN calls : calls[i].fn = "processMessage"

\* The last step's sub_.subscribe() call threw.
SubscribeFailed == \E i \in DOMAIN calls : calls[i].fn = "ros::Exception"

(***************************************************************************)
(* Claims                                                                  *)
(***************************************************************************)
\* C1 as stated: after onEnable exactly one subscription is open; after
\* onDisable none is open and the delivered-count is zero.
C1_AsStated ==
    /\ last = "onEnable" => Len(sub_) = 1
    /\ last = "onDisable" => sub_ = <<>> /\ messages_received_ = 0

\* C1 amended: after onEnable, also a repeated one, at most one subscription
\* is open: exactly one when the channel name is not empty and opening it did
\* not throw, none otherwise.  After onDisable no subscription is open and
\* the delivered-count is zero.
C1_EnableDisable ==
    /\ last = "onEnable" =>
          /\ Len(sub_) <= 1
          /\ Len(sub_) = 1 <=> (topic_property_ # "" /\ ~SubscribeFailed)
    /\ last = "onDisable" => sub_ = <<>> /\ messages_received_ = 0

\* An onEnable that ran with messages already counted (so on a display that
\* was enabled before and not disabled since) and holds one subscription.
C1_Witness ==
    last = "onEnable" /\ Len(sub_) = 1 /\ messages_received_ > 0

\* C2: a call of incomingMessage with a null message leaves the
\* delivered-count and the status as they were and does not invoke
\* processMessage.
C2_NullIgnored ==
    [][last' = "incomingMessage" =>
          /\ messages_received_' = messages_received_
          /\ status' = status
          /\ ~Delivered']_vars

\* A null message came in while messages had been counted.
C2_Witness ==
    /\ last = "incomingMessage"
    /\ messages_received_ > 0
    /\ status = StatusReceived(messages_received_)

\* C3: a change of the channel name on an enabled display makes exactly one
\* sub_.unsubscribe() call followed by exactly one sub_.subscribe() call,
\* and that call names the new channel; a subscription it opens is on the
\* new channel.
C3_TopicChange ==
    [][(last' = "setTopic" /\ enabled /\ topic_property_' # topic_property_) =>
          /\ SubCalls' =
                <<Call("sub_.unsubscribe", <<>>),
                  Call("sub_.subscribe",
                       <<topic_property_',
                         IF unreliable_property_ THEN "unreliable"
                         ELSE "reliable">>)>>
          /\ \A i \in DOMAIN sub_' : sub_'[i].topic = topic_property_']_vars

\* The channel was changed on an enabled display and the new one is open.
C3_Witness ==
    /\ last = "setTopic" /\ enabled
    /\ Len(sub_) = 1 /\ sub_[1].topic = "cloud" /\ topic_property_ = "cloud"

\* C4: a change of the fixed frame empties the filter's queue, sets the
\* filter's target frame to the new frame and the delivered-count to zero,
\* and makes no call to sub_: the open subscriptions are as before.
C4_FrameChange ==
    [][(last' = "fixedFrameChanged" /\ fixed_frame_' # fixed_frame_) =>
          /\ tf_filter_'.messages = <<>>
          /\ tf_filter_'.target_frame = fixed_frame_'
          /\ messages_received_' = 0
          /\ sub_' = sub_
          /\ SubCalls' = <<>>]_vars

\* The fixed frame was changed while a subscription was open.
C4_Witness ==
    /\ last = "fixedFrameChanged"
    /\ Len(sub_) = 1
    /\ tf_filter_.target_frame = "odom" /\ fixed_frame_ = "odom"

\* C5: no exception leaves a handler.  A step whose sub_.subscribe() call
\* threw ends with the "Topic" status at Error, the display enabled and no
\* subscription open; when that step is onEnable it changes nothing else.
C5_SubscribeFailure ==
    [][/\ ~uncaught'
       /\ SubscribeFailed' =>
             /\ status' = StatusError
             /\ enabled'
             /\ sub_' = <<>>
       /\ (SubscribeFailed' /\ last' = "onEnable") =>
             UNCHANGED <<topic_property_, unreliable_property_, fixed_frame_,
                         tf_filter_, wiring, messages_received_, tf_ok,
                         destroyed, null_deref>>]_vars

\* onEnable ran on a display with counted messages and the subscription
\* could not be opened.
C5_Witness ==
    /\ last = "onEnable" /\ SubscribeFailed
    /\ status = StatusError /\ messages_received_ > 0

\* C6: processMessage is invoked only in a step in which the filter
\* resolves the message to its current target frame, and the filter never
\* queues more than QueueSize messages.
C6_OnlyResolvable ==
    /\ Delivered => FilterLive(St) /\ tf_filter_.target_frame \in tf_ok
    /\ Len(tf_filter_.messages) <= QueueSize

\* A message was delivered off a queue that had been full.
C6_Witness ==
    /\ last = "release" /\ Delivered
    /\ Len(tf_filter_.messages) = QueueSize - 1

C8_SubscriptionMatchesSettings ==
    \A i \in DOMAIN sub_ :
        /\ sub_[i].topic = topic_property_
        /\ sub_[i].hint = IF unreliable_property_ THEN "unreliable"
                          ELSE "reliable"

\* The transport was switched to unreliable with a channel open.
C8_Witness ==
    /\ last = "setUnreliable" /\ unreliable_property_
    /\ Len(sub_) = 1 /\ sub_[1].hint = "unreliable"

\* C9 as stated: the filter exists exactly when a subscription is open.
C9_AsStated == (tf_filter_.ptr = "live") <=> (sub_ # <<>>)

\* C9 amended: a subscription is open only while the filter exists, and the
\* destructor leaves neither; an initialized display keeps its filter until
\* the destructor, also while no subscription is open.
C9_SubscriptionNeedsFilter ==
    /\ sub_ # <<>> => tf_filter_.ptr = "live"
    /\ destroyed => sub_ = <<>> /\ tf_filter_.ptr # "live"
    /\ (~destroyed /\ fixed_frame_ # "") => tf_filter_.ptr = "live"

\* The display was destroyed and its filter deleted.
C9_Witness ==
    destroyed /\ tf_filter_.ptr = "deleted" /\ enabled /\ topic_property_ # ""

\* C10 as stated: the delivered-count never decreases.
C10_AsStated == [][messages_received_' >= messages_received_]_vars

\* C10 amended: a step leaves the delivered-count as it is, or delivers a
\* message and adds one to it (modulo 2^32), or runs reset() and sets it to
\* zero.
C10_CountSteps ==
    [][\/ messages_received_' = messages_received_
       \/ /\ Delivered'
          /\ messages_received_' = (messages_received_ + 1) % CounterMod
       \/ /\ last' \in ResetSteps
          /\ messages_received_' = 0]_vars

\* A delivery took the delivered-count above one.
C10_Witness == Delivered /\ messages_received_ = 2

\* The calls of the last step that create or delete a filter.
IsFilterLifeCall(c) == c.fn \in {"new MessageFilter", "delete tf_filter_"}
FilterLifeCalls == SelectSeq(calls, IsFilterLifeCall)

\* C11 as stated: onInitialize leaves a filter and an open subscription, and
\* a change of the channel name or of the reliability setting deletes the
\* filter and creates a new one.
C11_AsStated ==
    /\ last = "onInitialize" => tf_filter_.ptr = "live" /\ sub_ # <<>>
    /\ last \in {"setTopic", "setUnreliable"} =>
          FilterLifeCalls = <<Call("delete tf_filter_", <<>>),
                              Call("new MessageFilter", <<fixed_frame_>>)>>

\* C11 amended: onInitialize creates the filter and opens no subscription.
\* A change of the channel name or of the reliability setting closes the
\* subscription and, on an enabled display, subscribes again; it neither
\* deletes nor creates a filter: the filter stays, with its target frame and
\* its connections, and its queue is emptied.
C11_InitAndRebuild ==
    [][/\ last' = "onInitialize" =>
             /\ tf_filter_'.ptr = "live" /\ sub_' = <<>>
             /\ FilterLifeCalls' = <<Call("new MessageFilter", <<fixed_frame_'>>)>>
       /\ last' \in {"setTopic", "setUnreliable"} =>
             /\ FilterLifeCalls' = <<>>
             /\ tf_filter_' = [tf_filter_ EXCEPT !.messages = <<>>]
             /\ wiring' = wiring
             /\ Len(SubCalls') = (IF enabled THEN 2 ELSE 1)
             /\ SubCalls'[1] = Call("sub_.unsubscribe", <<>>)
             /\ enabled => SubCalls'[2].fn = "sub_.subscribe"]_vars

\* The reliability setting was switched back on an enabled display whose
\* channel is open again.
C11_Witness ==
    /\ last = "setUnreliable" /\ ~unreliable_property_ /\ enabled
    /\ Len(sub_) = 1 /\ tf_filter_.ptr = "live"

C13_OpenOnlyWhileEnabled ==
    /\ sub_ # <<>> => enabled
    /\ (last \in {"setTopic", "setUnreliable"} /\ ~enabled) =>
          /\ sub_ = <<>>
          /\ SubCalls = <<Call("sub_.unsubscribe", <<>>)>>
          /\ messages_received_ = 0
          /\ tf_filter_.messages = <<>>
          /\ status = NoStatus

\* The channel was named on a disabled display.
C13_Witness ==
    last = "setTopic" /\ ~enabled /\ topic_property_ = "scan"

\* C14: the adapter holds at most one open subscription.
C14_AtMostOneSubscription == Len(sub_) <= 1

\* onEnable ran on a display whose filter had queued messages (so one that
\* was enabled and subscribed already) and one subscription is open.
C14_Witness ==
    /\ last = "onEnable" /\ Len(sub_) = 1
    /\ tf_filter_.messages # <<>>

C16_CountMatchesInvocations ==
    /\ messages_received_ = handled % CounterMod
    /\ last \in ResetSteps \cup {"constructor"} => messages_received_ = 0

\* More messages than the counter can hold were handled without a reset:
\* the counter has wrapped around.
C16_Witness ==
    /\ handled = CounterMod + 1 /\ messages_received_ = 1
    /\ Delivered

\* C17: the destructor calls sub_.unsubscribe() and then deletes the
\* filter; once it has run, no subscription is open, no filter is left, no
\* message is handled and the filter pointer has not been used on a filter
\* that does not exist, whether or not the display was initialized or
\* enabled.
C17_Teardown ==
    destroyed =>
        /\ last = "destructor"
        /\ calls = <<Call("sub_.unsubscribe", <<>>),
                     Call("delete tf_filter_", <<>>)>>
        /\ sub_ = <<>>
        /\ tf_filter_.ptr \in {"NULL", "deleted"}
        /\ tf_filter_.messages = <<>>
        /\ ~null_deref /\ ~uncaught

\* An enabled display on the unreliable transport was destroyed.
C17_Witness ==
    /\ destroyed /\ tf_filter_.ptr = "deleted"
    /\ enabled /\ unreliable_property_ /\ topic_property_ = "cloud"

\* A display that was never initialized was destroyed.
C17_UninitializedDestroyed == destroyed /\ tf_filter_.ptr = "NULL"

=============================================================================
